---------------------------- MODULE Spec2Model ----------------------------
(***************************************************************************)
(* Model of the Gemini API key rotator (src/src/lib/gemini-rotator.ts):    *)
(* the GeminiRotator singleton (key pool, blacklist with TTL, rotation     *)
(* pointer) and the makeGeminiRequest retry loop, run by concurrent        *)
(* callers on the JavaScript event loop.  Every action is one synchronous  *)
(* run-to-completion segment of the code; callers interleave only at the   *)
(* awaits of makeGeminiRequest (the upstream call and the await of         *)
(* handleApiError).                                                        *)
(*                                                                         *)
(* Keys are identified by their index 0..numKeys-1 in apiKeys (the         *)
(* configured keys are taken to be pairwise distinct).  Time is counted in *)
(* milliseconds, as Date.now() does; the clock advances by half a TTL or by *)
(* a whole TTL.                                                            *)
(***************************************************************************)
EXTENDS Integers, Sequences, FiniteSets, TLC

VARIABLES
    numKeys,          \* apiKeys.length, fixed by the constructor
    now,              \* Date.now()
    currentKeyIndex,  \* GeminiRotator.currentKeyIndex
    keyStatuses,      \* GeminiRotator.keyStatuses: key -> ApiKeyStatus
    pc,               \* per caller: where its makeGeminiRequest invocation stands
    attempt,          \* per caller: the loop variable `attempt`
    maxRetries,       \* per caller: the argument maxRetries
    usedKey,          \* per caller: key whose client was handed to requestFn
    lastError,        \* per caller: the local `lastError`
    outcome,          \* per caller: value returned / error thrown to the caller
    calls,            \* history, per caller: requestFn invocations of this invocation
    okValues,         \* history, per caller: results of successful requestFn calls
    alone,            \* history, per caller: started on an all-Active pool and
                      \* no other invocation has overlapped it
    quiet,            \* history, per caller: no reset and no expiry since it started
    solo,             \* history, per caller: no other invocation has overlapped it
    degraded,         \* history, per caller: invoked on a fully blacklisted, unexpired pool
    handed,           \* history, per caller: the keys handed to requestFn, in order
    quotaFailed,      \* history: keys one of whose own calls failed quota/rate-limit
    ticks             \* history: number of clock advances

vars == << numKeys, now, currentKeyIndex, keyStatuses, pc, attempt, maxRetries,
           usedKey, lastError, outcome, calls, okValues, alone, quiet, solo,
           degraded, handed, quotaFailed, ticks >>

poolVars == << currentKeyIndex, keyStatuses >>

---------------------------------------------------------------------------
(* Bounds of the model *)

\* number of clock advances explored
MaxTicks == 2

\* longest credential explored
MaxKeyLength == 10

(* Program constants *)

\* substring(0, 8): the length of the prefix a masked key shows
MaskLength == 8

\* the constructor reads at most five keys from the environment
MaxKeys == 5

\* default value of the parameter maxRetries
DefaultMaxRetries == 3

\* blacklistDuration = 24 * 60 * 60 * 1000 ms
blacklistDuration == 24 * 60 * 60 * 1000

\* the model's clock step: half a TTL, so that two keys can be blacklisted
\* at different times and a blacklist be met before, at and after its end
TickSteps == {blacklistDuration \div 2}

\* the invocations of makeGeminiRequest explored: two callers, each making
\* one invocation; the two may overlap or follow one another
Callers == {1, 2}

\* pool sizes on which all callers run; on larger pools only caller 1 does
ConcurrentPools == {1, 2}

Overlap == numKeys \in ConcurrentPools

\* an optional number that is not set (blacklistedUntil?, lastUsed?)
Undefined == -1

Keys == 0 .. (numKeys - 1)

\* JavaScript truthiness of an optional number
Truthy(x) == x # Undefined /\ x # 0

---------------------------------------------------------------------------
(* Credentials: a key is the sequence of its characters *)

KeyChars == << "A", "I", "z", "a", "S", "y", "B", "c", "D", "e", "F", "g" >>

KeyDigits == << "0", "1", "2", "3", "4" >>

\* the keys of the environment in the rotation runs: GEMINI_API_KEY,
\* GEMINI_API_KEY_2, ..., distinct and longer than a mask
DefaultKey(k) == KeyChars \o << KeyDigits[k + 1] >>

\* lengths of the credentials explored: around the mask length, non-empty
\* (the constructor filters the empty ones out)
KeyLengths == {1, MaskLength - 1, MaskLength, MaskLength + 1, MaxKeyLength}

Credentials == {SubSeq(KeyChars, 1, n) : n \in KeyLengths}

\* String.prototype.substring(start, end), 0-based, end clipped to the length
Substring(str, start, end) ==
    SubSeq(str, start + 1, IF end < Len(str) THEN end ELSE Len(str))

\* key.substring(0, 8) + '...'
Mask(key) == Substring(key, 0, MaskLength) \o << ".", ".", "." >>

---------------------------------------------------------------------------
(* Errors a requestFn may reject with, and their classification *)

\* a message is the sequence of its characters
NoMessage == << >>

\* "Internal error"
InternalErrorMessage ==
    << "I", "n", "t", "e", "r", "n", "a", "l", " ", "e", "r", "r", "o", "r" >>

NoError == [defined |-> FALSE, status |-> 0, message |-> NoMessage]

Errors ==
    { [defined |-> TRUE, status |-> 429, message |-> NoMessage],
      [defined |-> TRUE, status |-> 503, message |-> NoMessage],
      [defined |-> TRUE, status |-> 500, message |-> InternalErrorMessage] }

(* The phrases isQuotaLimitError and isRateLimitError look for *)

\* "quota"
PhraseQuota ==
    << "q", "u", "o", "t", "a" >>

\* "RESOURCE_EXHAUSTED"
PhraseResourceExhausted ==
    << "R", "E", "S", "O", "U", "R", "C", "E", "_", "E", "X", "H", "A", "U",
       "S", "T", "E", "D" >>

\* "exceeded your current quota"
PhraseExceededQuota ==
    << "e", "x", "c", "e", "e", "d", "e", "d", " ", "y", "o", "u", "r", " ",
       "c", "u", "r", "r", "e", "n", "t", " ", "q", "u", "o", "t", "a" >>

\* "rate limit"
PhraseRateLimit ==
    << "r", "a", "t", "e", " ", "l", "i", "m", "i", "t" >>

\* "Too Many Requests"
PhraseTooManyRequests ==
    << "T", "o", "o", " ", "M", "a", "n", "y", " ", "R", "e", "q", "u", "e",
       "s", "t", "s" >>

\* "overloaded"
PhraseOverloaded ==
    << "o", "v", "e", "r", "l", "o", "a", "d", "e", "d" >>

\* str contains part as a run of consecutive characters
Contains(str, part) ==
    \E i \in 1 .. (Len(str) - Len(part) + 1) :
       SubSeq(str, i, i + Len(part) - 1) = part

\* String.prototype.includes: case-sensitive
Includes(message, phrase) == Contains(message, phrase)

isQuotaLimitError(error) ==
    IF ~error.defined THEN FALSE
    ELSE \/ error.status = 429
         \/ Includes(error.message, PhraseQuota)
         \/ Includes(error.message, PhraseResourceExhausted)
         \/ Includes(error.message, PhraseExceededQuota)

\* mutant of isRateLimitError: status 503 is not looked at
isRateLimitError_No503(error) ==
    IF ~error.defined THEN FALSE
    ELSE \/ error.status = 429
         \/ Includes(error.message, PhraseRateLimit)
         \/ Includes(error.message, PhraseTooManyRequests)
         \/ Includes(error.message, PhraseOverloaded)

isRateLimitError(error) ==
    IF ~error.defined THEN FALSE
    ELSE \/ error.status = 429
         \/ error.status = 503
         \/ Includes(error.message, PhraseRateLimit)
         \/ Includes(error.message, PhraseTooManyRequests)
         \/ Includes(error.message, PhraseOverloaded)

\* the reason handleApiError gives blacklistCurrentKey, "other" when it
\* does not blacklist
Classify(error) ==
    IF isQuotaLimitError(error) THEN "quota"
    ELSE IF isRateLimitError(error) THEN "rate_limit"
    ELSE "other"

(* The errors of the classification runs: every status with every message *)

\* "Request timed out"
MessageTimeout ==
    << "R", "e", "q", "u", "e", "s", "t", " ", "t", "i", "m", "e", "d", " ",
       "o", "u", "t" >>

\* "You exceeded your current quota"
MessageGeminiQuota ==
    << "Y", "o", "u", " ", "e", "x", "c", "e", "e", "d", "e", "d", " ", "y",
       "o", "u", "r", " ", "c", "u", "r", "r", "e", "n", "t", " ", "q", "u",
       "o", "t", "a" >>

\* "resource exhausted"
MessageLowerResourceExhausted ==
    << "r", "e", "s", "o", "u", "r", "c", "e", " ", "e", "x", "h", "a", "u",
       "s", "t", "e", "d" >>

\* "too many requests"
MessageLowerTooManyRequests ==
    << "t", "o", "o", " ", "m", "a", "n", "y", " ", "r", "e", "q", "u", "e",
       "s", "t", "s" >>

\* "rate limit reached"
MessageRateLimit ==
    << "r", "a", "t", "e", " ", "l", "i", "m", "i", "t", " ", "r", "e", "a",
       "c", "h", "e", "d" >>

\* "The model is overloaded"
MessageOverloaded ==
    << "T", "h", "e", " ", "m", "o", "d", "e", "l", " ", "i", "s", " ", "o",
       "v", "e", "r", "l", "o", "a", "d", "e", "d" >>

ClassifiedMessages ==
    { NoMessage, InternalErrorMessage, MessageTimeout, MessageGeminiQuota,
      PhraseResourceExhausted, MessageLowerResourceExhausted,
      PhraseTooManyRequests, MessageLowerTooManyRequests, MessageRateLimit,
      MessageOverloaded }

\* error.status || error.code || 0
ClassifiedStatuses == {0, 429, 500, 503}

ClassifiedErrors ==
    { [defined |-> TRUE, status |-> st, message |-> msg] :
         st \in ClassifiedStatuses, msg \in ClassifiedMessages }

\* values a successful requestFn may resolve to
Values == {"v1", "v2"}

NoValue == "none"

---------------------------------------------------------------------------
(* The rotator's methods, as functions of the pool state                   *)
(* P = [currentKeyIndex, keyStatuses] and the clock t                      *)

Pool == [currentKeyIndex |-> currentKeyIndex, keyStatuses |-> keyStatuses]

PoolKeys(P) == DOMAIN P.keyStatuses

PoolSize(P) == Cardinality(PoolKeys(P))

InitialStatus(key) ==
    [key |-> key, isBlacklisted |-> FALSE, blacklistedUntil |-> Undefined,
     lastUsed |-> Undefined, requestCount |-> 0]

ExpiredAt(s, t) ==
    s.isBlacklisted /\ Truthy(s.blacklistedUntil) /\ s.blacklistedUntil <= t

\* mutant of cleanupExpiredBlacklists: a blacklist is lifted half a
\* blacklistDuration before its blacklistedUntil
cleanupExpiredBlacklists_EarlyExpiry(P, t) ==
    [P EXCEPT !.keyStatuses =
        [k \in PoolKeys(P) |->
            IF /\ P.keyStatuses[k].isBlacklisted
               /\ Truthy(P.keyStatuses[k].blacklistedUntil)
               /\ P.keyStatuses[k].blacklistedUntil <= t + (blacklistDuration \div 2)
            THEN [P.keyStatuses[k] EXCEPT !.isBlacklisted = FALSE,
                                          !.blacklistedUntil = Undefined]
            ELSE P.keyStatuses[k]]]

\* mutant of cleanupExpiredBlacklists: the expiry test is strict
\* (`blacklistedUntil < now`)
cleanupExpiredBlacklists_StrictExpiry(P, t) ==
    [P EXCEPT !.keyStatuses =
        [k \in PoolKeys(P) |->
            IF /\ P.keyStatuses[k].isBlacklisted
               /\ Truthy(P.keyStatuses[k].blacklistedUntil)
               /\ P.keyStatuses[k].blacklistedUntil < t
            THEN [P.keyStatuses[k] EXCEPT !.isBlacklisted = FALSE,
                                          !.blacklistedUntil = Undefined]
            ELSE P.keyStatuses[k]]]

cleanupExpiredBlacklists(P, t) ==
    [P EXCEPT !.keyStatuses =
        [k \in PoolKeys(P) |->
            IF ExpiredAt(P.keyStatuses[k], t)
            THEN [P.keyStatuses[k] EXCEPT !.isBlacklisted = FALSE,
                                          !.blacklistedUntil = Undefined]
            ELSE P.keyStatuses[k]]]

getAvailableKeysCount(P, t) ==
    LET Q == cleanupExpiredBlacklists(P, t)
    IN  [pool |-> Q,
         count |-> Cardinality({k \in PoolKeys(Q) : ~Q.keyStatuses[k].isBlacklisted})]

hasAvailableKeys(P, t) ==
    LET r == getAvailableKeysCount(P, t)
    IN  [pool |-> r.pool, value |-> r.count > 0]

\* the for loop of getActiveKey: first non-blacklisted key index at
\* (currentKeyIndex + i) % length for i = i, i+1, ...; -1 when the loop ends
RECURSIVE ScanFrom(_, _)
ScanFrom(P, i) ==
    IF i >= PoolSize(P) THEN -1
    ELSE LET keyIndex == (P.currentKeyIndex + i) % PoolSize(P)
         IN  IF ~P.keyStatuses[keyIndex].isBlacklisted THEN keyIndex
             ELSE ScanFrom(P, i + 1)

\* the forEach of getActiveKey: best = [found, expiry, index], where
\* found = FALSE stands for earliestExpiry = Infinity
RECURSIVE EarliestFrom(_, _, _)
EarliestFrom(P, index, best) ==
    IF index >= PoolSize(P) THEN best
    ELSE LET u == P.keyStatuses[index].blacklistedUntil
         IN  IF Truthy(u) /\ (~best.found \/ u < best.expiry)
             THEN EarliestFrom(P, index + 1,
                               [found |-> TRUE, expiry |-> u, index |-> index])
             ELSE EarliestFrom(P, index + 1, best)

\* mutant of getActiveKey: with every key blacklisted the first key is
\* handed out, whatever the expiry times
getActiveKey_FirstKeyWhenExhausted(P, t) ==
    LET Q == cleanupExpiredBlacklists(P, t)
        hit == ScanFrom(Q, 0)
    IN  IF hit # -1
        THEN [pool |-> [Q EXCEPT !.currentKeyIndex = hit], key |-> hit]
        ELSE [pool |-> [Q EXCEPT !.currentKeyIndex = 0], key |-> 0]

\* mutant of getActiveKey: the scan starts at the first key instead of
\* currentKeyIndex
getActiveKey_ScanFromZero(P, t) ==
    LET Q == cleanupExpiredBlacklists(P, t)
        hit == ScanFrom([Q EXCEPT !.currentKeyIndex = 0], 0)
        best == EarliestFrom(Q, 0, [found |-> FALSE, expiry |-> 0, index |-> 0])
    IN  IF hit # -1
        THEN [pool |-> [Q EXCEPT !.currentKeyIndex = hit], key |-> hit]
        ELSE [pool |-> [Q EXCEPT !.currentKeyIndex = best.index], key |-> best.index]

\* mutant of getActiveKey: the key at currentKeyIndex is returned without
\* looking at its blacklist flag
getActiveKey_IgnoresBlacklist(P, t) ==
    LET Q == cleanupExpiredBlacklists(P, t)
    IN  [pool |-> Q, key |-> Q.currentKeyIndex]

getActiveKey(P, t) ==
    LET Q == cleanupExpiredBlacklists(P, t)
        hit == ScanFrom(Q, 0)
        best == EarliestFrom(Q, 0, [found |-> FALSE, expiry |-> 0, index |-> 0])
    IN  IF hit # -1
        THEN [pool |-> [Q EXCEPT !.currentKeyIndex = hit], key |-> hit]
        ELSE [pool |-> [Q EXCEPT !.currentKeyIndex = best.index], key |-> best.index]

getCurrentClient(P, t) ==
    LET r == getActiveKey(P, t)
    IN  [pool |-> [r.pool EXCEPT
                      !.keyStatuses[r.key].lastUsed = t,
                      !.keyStatuses[r.key].requestCount = @ + 1],
         key |-> r.key]

\* the do-while loop of moveToNextKey
RECURSIVE MoveLoop(_, _)
MoveLoop(P, startIndex) ==
    LET next == (P.currentKeyIndex + 1) % PoolSize(P)
        Q == [P EXCEPT !.currentKeyIndex = next]
    IN  IF ~Q.keyStatuses[next].isBlacklisted THEN Q
        ELSE IF next # startIndex THEN MoveLoop(Q, startIndex)
        ELSE Q

\* mutant of moveToNextKey: the index is advanced without the wrap-around
\* `% this.apiKeys.length`
moveToNextKey_NoWrap(P) == [P EXCEPT !.currentKeyIndex = @ + 1]

moveToNextKey(P) == MoveLoop(P, P.currentKeyIndex)

\* mutant of blacklistCurrentKey: a key that is already blacklisted keeps
\* the expiry it has
blacklistCurrentKey_KeepsEarlierExpiry(P, t) ==
    LET currentKey == P.currentKeyIndex
        B == IF P.keyStatuses[currentKey].isBlacklisted
             THEN P
             ELSE [P EXCEPT !.keyStatuses[currentKey].isBlacklisted = TRUE,
                            !.keyStatuses[currentKey].blacklistedUntil = t + blacklistDuration]
        L == getAvailableKeysCount(B, t).pool
    IN  moveToNextKey(L)

\* mutant of blacklistCurrentKey: blacklisting a key again adds a whole
\* blacklistDuration to the expiry it has
blacklistCurrentKey_ExtendsExpiry(P, t) ==
    LET currentKey == P.currentKeyIndex
        until == IF P.keyStatuses[currentKey].isBlacklisted
                 THEN P.keyStatuses[currentKey].blacklistedUntil + blacklistDuration
                 ELSE t + blacklistDuration
        B == [P EXCEPT !.keyStatuses[currentKey].isBlacklisted = TRUE,
                       !.keyStatuses[currentKey].blacklistedUntil = until]
        L == getAvailableKeysCount(B, t).pool
    IN  moveToNextKey(L)

\* mutant of blacklistCurrentKey: the key is blacklisted but the rotation
\* is not advanced
blacklistCurrentKey_NoAdvance(P, t) ==
    LET currentKey == P.currentKeyIndex
        B == [P EXCEPT !.keyStatuses[currentKey].isBlacklisted = TRUE,
                       !.keyStatuses[currentKey].blacklistedUntil = t + blacklistDuration]
    IN  getAvailableKeysCount(B, t).pool

blacklistCurrentKey(P, t) ==
    LET currentKey == P.currentKeyIndex
        B == [P EXCEPT !.keyStatuses[currentKey].isBlacklisted = TRUE,
                       !.keyStatuses[currentKey].blacklistedUntil = t + blacklistDuration]
        \* the log line calls getAvailableKeysCount, which cleans up
        L == getAvailableKeysCount(B, t).pool
    IN  moveToNextKey(L)

\* mutant of handleApiError: the retry decision forgets the attempt cap
\* `retryAttempt < this.apiKeys.length - 1`
handleApiError_NoAttemptCap(P, t, error, retryAttempt) ==
    IF isQuotaLimitError(error) \/ isRateLimitError(error)
    THEN LET B == blacklistCurrentKey(P, t)
             h == hasAvailableKeys(B, t)
         IN  [pool |-> h.pool, throws |-> ~h.value]
    ELSE [pool |-> P, throws |-> TRUE]

\* mutant of handleApiError: the attempt cap is off by one
\* (`retryAttempt < this.apiKeys.length - 2`)
handleApiError_CapOffByOne(P, t, error, retryAttempt) ==
    IF isQuotaLimitError(error) \/ isRateLimitError(error)
    THEN LET B == blacklistCurrentKey(P, t)
         IN  IF retryAttempt < PoolSize(P) - 2
             THEN LET h == hasAvailableKeys(B, t)
                  IN  [pool |-> h.pool, throws |-> ~h.value]
             ELSE [pool |-> B, throws |-> TRUE]
    ELSE [pool |-> P, throws |-> TRUE]

\* mutant of handleApiError: every error blacklists the current key
\* (blacklistCurrentKey accepts the reason 'error')
handleApiError_BlacklistsAnyError(P, t, error, retryAttempt) ==
    LET B == blacklistCurrentKey(P, t)
    IN  IF isQuotaLimitError(error) \/ isRateLimitError(error)
        THEN IF retryAttempt < PoolSize(P) - 1
             THEN LET h == hasAvailableKeys(B, t)
                  IN  [pool |-> h.pool, throws |-> ~h.value]
             ELSE [pool |-> B, throws |-> TRUE]
        ELSE [pool |-> B, throws |-> TRUE]

\* mutant of handleApiError: an other-classified error is retried instead
\* of rethrown
handleApiError_RetriesAnyError(P, t, error, retryAttempt) ==
    IF isQuotaLimitError(error) \/ isRateLimitError(error)
    THEN LET B == blacklistCurrentKey(P, t)
         IN  IF retryAttempt < PoolSize(P) - 1
             THEN LET h == hasAvailableKeys(B, t)
                  IN  [pool |-> h.pool, throws |-> ~h.value]
             ELSE [pool |-> B, throws |-> TRUE]
    ELSE [pool |-> P, throws |-> FALSE]

\* handleApiError: [pool, throws]; throws = FALSE is the plain return
handleApiError(P, t, error, retryAttempt) ==
    IF isQuotaLimitError(error) \/ isRateLimitError(error)
    THEN LET B == blacklistCurrentKey(P, t)
         IN  IF retryAttempt < PoolSize(P) - 1
             THEN LET h == hasAvailableKeys(B, t)
                  IN  [pool |-> h.pool, throws |-> ~h.value]
             ELSE [pool |-> B, throws |-> TRUE]
    ELSE [pool |-> P, throws |-> TRUE]

\* mutant of getStatus: the snapshot is taken without the expiry cleanup
getStatus_NoCleanup(P, t) ==
    [pool |-> P,
     status |-> [totalKeys |-> PoolSize(P),
                 activeKeys |-> Cardinality({k \in PoolKeys(P) :
                                                ~P.keyStatuses[k].isBlacklisted}),
                 blacklistedKeys |-> Cardinality({k \in PoolKeys(P) :
                                                     P.keyStatuses[k].isBlacklisted}),
                 currentKey |-> Mask(P.keyStatuses[P.currentKeyIndex].key),
                 keyStatuses |->
                    [k \in PoolKeys(P) |->
                        [key |-> Mask(P.keyStatuses[k].key),
                         isBlacklisted |-> P.keyStatuses[k].isBlacklisted,
                         requestCount |-> P.keyStatuses[k].requestCount,
                         blacklistedUntil |-> P.keyStatuses[k].blacklistedUntil]]]]

getStatus(P, t) ==
    LET Q == cleanupExpiredBlacklists(P, t)
        a == getAvailableKeysCount(Q, t)
    IN  [pool |-> a.pool,
         status |-> [totalKeys |-> PoolSize(P),
                     activeKeys |-> a.count,
                     blacklistedKeys |-> PoolSize(P) - a.count,
                     currentKey |-> Mask(a.pool.keyStatuses[a.pool.currentKeyIndex].key),
                     keyStatuses |->
                        [k \in PoolKeys(P) |->
                            [key |-> Mask(a.pool.keyStatuses[k].key),
                             isBlacklisted |-> a.pool.keyStatuses[k].isBlacklisted,
                             requestCount |-> a.pool.keyStatuses[k].requestCount,
                             blacklistedUntil |-> a.pool.keyStatuses[k].blacklistedUntil]]]]

\* mutant of resetAllKeys: blacklistedUntil is not cleared
resetAllKeys_KeepsExpiry(P) ==
    [P EXCEPT !.keyStatuses =
        [k \in PoolKeys(P) |->
            [P.keyStatuses[k] EXCEPT !.isBlacklisted = FALSE,
                                     !.requestCount = 0]]]

\* mutant of resetAllKeys: requestCount is not cleared
resetAllKeys_KeepsCount(P) ==
    [P EXCEPT !.keyStatuses =
        [k \in PoolKeys(P) |->
            [P.keyStatuses[k] EXCEPT !.isBlacklisted = FALSE,
                                     !.blacklistedUntil = Undefined]]]

\* mutant of resetAllKeys: the reset also advances the rotation
resetAllKeys_AdvancesIndex(P) ==
    [P EXCEPT !.currentKeyIndex = (@ + 1) % PoolSize(P),
              !.keyStatuses =
        [k \in PoolKeys(P) |->
            [P.keyStatuses[k] EXCEPT !.isBlacklisted = FALSE,
                                     !.blacklistedUntil = Undefined,
                                     !.requestCount = 0]]]

resetAllKeys(P) ==
    [P EXCEPT !.keyStatuses =
        [k \in PoolKeys(P) |->
            [P.keyStatuses[k] EXCEPT !.isBlacklisted = FALSE,
                                     !.blacklistedUntil = Undefined,
                                     !.requestCount = 0]]]

---------------------------------------------------------------------------
(* State machine *)

Running(c) == pc[c] \in {"calling", "handled"}

\* some key's blacklist expires when the pool is accessed at time t
SomeExpiry(P, t) == \E k \in PoolKeys(P) : ExpiredAt(P.keyStatuses[k], t)

SetPool(P) ==
    /\ currentKeyIndex' = P.currentKeyIndex
    /\ keyStatuses' = P.keyStatuses

\* the state the constructor leaves at time t, for the keys apiKeys of the
\* environment
ConstructedAt(apiKeys, t) ==
    /\ now = t
    /\ currentKeyIndex = 0
    /\ keyStatuses = [k \in Keys |-> InitialStatus(apiKeys[k])]
    /\ pc = [c \in Callers |-> "idle"]
    /\ attempt = [c \in Callers |-> 0]
    /\ maxRetries = [c \in Callers |-> 0]
    /\ usedKey = [c \in Callers |-> 0]
    /\ lastError = [c \in Callers |-> NoError]
    /\ outcome = [c \in Callers |-> [kind |-> "none", value |-> NoValue, error |-> NoError]]
    /\ calls = [c \in Callers |-> 0]
    /\ okValues = [c \in Callers |-> << >>]
    /\ alone = [c \in Callers |-> FALSE]
    /\ quiet = [c \in Callers |-> FALSE]
    /\ solo = [c \in Callers |-> FALSE]
    /\ degraded = [c \in Callers |-> FALSE]
    /\ handed = [c \in Callers |-> << >>]
    /\ quotaFailed = {}
    /\ ticks = 0

Constructed(apiKeys) == ConstructedAt(apiKeys, 0)

Init ==
    /\ numKeys \in 1 .. MaxKeys
    /\ Constructed([k \in Keys |-> DefaultKey(k)])

\* pool sizes of the runs that explore the credentials
MaskPools == {1, 2}

\* the same program on small pools, with distinct credentials of every
\* length explored
MaskInit ==
    /\ numKeys \in MaskPools
    /\ \E apiKeys \in [Keys -> Credentials] :
          /\ \A j, k \in Keys : apiKeys[j] = apiKeys[k] => j = k
          /\ Constructed(apiKeys)

NoOutcome == [kind |-> "none", value |-> NoValue, error |-> NoError]

\* the locals of an invocation of caller c: attempt a, limit m, lastError e
\* and the key k whose client requestFn holds
SetFrame(c, a, m, e, k) ==
    /\ attempt' = [attempt EXCEPT ![c] = a]
    /\ maxRetries' = [maxRetries EXCEPT ![c] = m]
    /\ lastError' = [lastError EXCEPT ![c] = e]
    /\ usedKey' = [usedKey EXCEPT ![c] = k]
    /\ handed' = [handed EXCEPT ![c] = IF a = 0 THEN << k >> ELSE Append(@, k)]

\* the invocation has returned or thrown: its locals are gone
DropFrame(c) ==
    /\ attempt' = [attempt EXCEPT ![c] = 0]
    /\ maxRetries' = [maxRetries EXCEPT ![c] = 0]
    /\ lastError' = [lastError EXCEPT ![c] = NoError]
    /\ usedKey' = [usedKey EXCEPT ![c] = 0]
    /\ handed' = [handed EXCEPT ![c] = << >>]

\* an access to the pool at which some blacklist expires ends the quiet of
\* every invocation
AfterAccess(q) ==
    IF SomeExpiry(Pool, now) THEN [c \in Callers |-> FALSE] ELSE q

\* mutant of LoopHead: when the attempts are used up the function returns
\* canned content instead of throwing lastError
LoopHead_FallbackContent(c, a, m, e, n, q) ==
    IF a < m
    THEN LET r == getCurrentClient(Pool, now)
         IN  /\ SetPool(r.pool)
             /\ SetFrame(c, a, m, e, r.key)
             /\ pc' = [pc EXCEPT ![c] = "calling"]
             /\ calls' = [calls EXCEPT ![c] = n + 1]
             /\ outcome' = [outcome EXCEPT ![c] = NoOutcome]
             /\ quiet' = AfterAccess(q)
    ELSE /\ UNCHANGED poolVars
         /\ DropFrame(c)
         /\ pc' = [pc EXCEPT ![c] = "returned"]
         /\ calls' = [calls EXCEPT ![c] = n]
         /\ outcome' = [outcome EXCEPT ![c] =
                [kind |-> "returned", value |-> "v1", error |-> NoError]]
         /\ quiet' = q

\* one pass of the loop head of makeGeminiRequest for caller c with loop
\* variable a, limit m, lastError e and n requestFn calls made so far: either
\* getCurrentClient and the call of requestFn (up to its await), or the final
\* `throw lastError`
LoopHead(c, a, m, e, n, q) ==
    IF a < m
    THEN LET r == getCurrentClient(Pool, now)
         IN  /\ SetPool(r.pool)
             /\ SetFrame(c, a, m, e, r.key)
             /\ pc' = [pc EXCEPT ![c] = "calling"]
             /\ calls' = [calls EXCEPT ![c] = n + 1]
             /\ outcome' = [outcome EXCEPT ![c] = NoOutcome]
             /\ quiet' = AfterAccess(q)
    ELSE /\ UNCHANGED poolVars
         /\ DropFrame(c)
         /\ pc' = [pc EXCEPT ![c] = "thrown"]
         /\ calls' = [calls EXCEPT ![c] = n]
         /\ outcome' = [outcome EXCEPT ![c] =
                [kind |-> "thrown", value |-> NoValue, error |-> e]]
         /\ quiet' = q

\* a caller calls makeGeminiRequest(requestFn, m): the code runs up to the
\* first await (the upstream call), or throws at once when m <= 0
Invoke(c, m) ==
    /\ pc[c] = "idle"
    /\ c > 1 => Overlap /\ pc[c - 1] # "idle"
    /\ okValues' = [okValues EXCEPT ![c] = << >>]
    /\ LoopHead(c, 0, m, NoError, 0, [quiet EXCEPT ![c] = TRUE])
    /\ alone' = [d \in Callers |->
                    IF d = c
                    THEN /\ \A k \in Keys : ~keyStatuses[k].isBlacklisted
                         /\ \A e \in Callers \ {c} : ~Running(e)
                    ELSE FALSE]
    /\ solo' = [d \in Callers |->
                   IF d = c THEN \A e \in Callers \ {c} : ~Running(e) ELSE FALSE]
    /\ degraded' = [degraded EXCEPT ![c] =
                        /\ \A k \in Keys : keyStatuses[k].isBlacklisted
                        /\ ~SomeExpiry(Pool, now)]
    /\ UNCHANGED << numKeys, now, quotaFailed, ticks >>

\* requestFn resolves with value v: `return result`
Succeed(c, v) ==
    /\ pc[c] = "calling"
    /\ pc' = [pc EXCEPT ![c] = "returned"]
    /\ outcome' = [outcome EXCEPT ![c] =
           [kind |-> "returned", value |-> v, error |-> NoError]]
    /\ DropFrame(c)
    /\ okValues' = [okValues EXCEPT ![c] = Append(@, v)]
    /\ UNCHANGED << numKeys, now, poolVars, calls, alone, quiet, solo,
                    degraded, quotaFailed, ticks >>

\* requestFn rejects with error: the catch block up to the await of
\* handleApiError, whose whole body runs synchronously inside the call
Fail(c, error) ==
    /\ pc[c] = "calling"
    /\ LET h == handleApiError(Pool, now, error, attempt[c])
       IN  /\ SetPool(h.pool)
           /\ IF h.throws
              THEN /\ pc' = [pc EXCEPT ![c] = "thrown"]
                   /\ outcome' = [outcome EXCEPT ![c] =
                          [kind |-> "thrown", value |-> NoValue, error |-> error]]
                   /\ DropFrame(c)
              ELSE /\ pc' = [pc EXCEPT ![c] = "handled"]
                   /\ lastError' = [lastError EXCEPT ![c] = error]
                   /\ UNCHANGED << outcome, attempt, maxRetries, usedKey, handed >>
    /\ quotaFailed' =
          IF isQuotaLimitError(error) \/ isRateLimitError(error)
          THEN quotaFailed \cup {usedKey[c]}
          ELSE quotaFailed
    /\ quiet' =
          IF isQuotaLimitError(error) \/ isRateLimitError(error)
          THEN AfterAccess(quiet)
          ELSE quiet
    /\ UNCHANGED << numKeys, now, calls, okValues, alone, solo, degraded, ticks >>

\* handleApiError returned: attempt++ and the next pass of the loop head
Retry(c) ==
    /\ pc[c] = "handled"
    /\ LoopHead(c, attempt[c] + 1, maxRetries[c], lastError[c], calls[c], quiet)
    /\ UNCHANGED << numKeys, now, okValues, alone, solo, degraded,
                    quotaFailed, ticks >>

\* GET /api/gemini-status: geminiRotator.getStatus()
GetStatus ==
    /\ SetPool(getStatus(Pool, now).pool)
    /\ quiet' = AfterAccess(quiet)
    /\ UNCHANGED << numKeys, now, pc, attempt, maxRetries, usedKey, lastError,
                    outcome, calls, okValues, alone, solo, handed, quotaFailed,
                    degraded, ticks >>

\* POST /api/gemini-status {action: 'reset'}: geminiRotator.resetAllKeys()
ResetAllKeys ==
    /\ SetPool(resetAllKeys(Pool))
    /\ quiet' = [c \in Callers |-> FALSE]
    /\ UNCHANGED << numKeys, now, pc, attempt, maxRetries, usedKey, lastError,
                    outcome, calls, okValues, alone, solo, handed, quotaFailed,
                    degraded, ticks >>

\* the clock advances
Tick(step) ==
    /\ ticks < MaxTicks
    /\ ticks' = ticks + 1
    /\ now' = now + step
    /\ UNCHANGED << numKeys, poolVars, pc, attempt, maxRetries, usedKey,
                    lastError, outcome, calls, okValues, alone, quiet, solo,
                    degraded, handed, quotaFailed >>

\* the attempt limits callers pass: 0, the default, the pool size and one more
RetryArgs == {0, DefaultMaxRetries, numKeys, numKeys + 1}

Next ==
    \/ \E c \in Callers, m \in RetryArgs : Invoke(c, m)
    \/ \E c \in Callers, v \in Values : Succeed(c, v)
    \/ \E c \in Callers, e \in Errors : Fail(c, e)
    \/ \E c \in Callers : Retry(c)
    \/ GetStatus
    \/ ResetAllKeys
    \/ \E step \in TickSteps : Tick(step)

Spec == Init /\ [][Next]_vars

\* the runs that explore the credentials: one caller, the status route and
\* the clock
MaskCaller == 1

MaskNext ==
    \/ \E m \in RetryArgs : Invoke(MaskCaller, m)
    \/ \E v \in Values : Succeed(MaskCaller, v)
    \/ \E e \in Errors : Fail(MaskCaller, e)
    \/ Retry(MaskCaller)
    \/ GetStatus
    \/ ResetAllKeys
    \/ \E step \in TickSteps : Tick(step)

MaskSpec == MaskInit /\ [][MaskNext]_vars

\* the runs that explore the classification of errors: small pools, one
\* caller, every error of ClassifiedErrors
ClassifyInit ==
    /\ numKeys \in MaskPools
    /\ Constructed([k \in Keys |-> DefaultKey(k)])

ClassifyNext ==
    \/ \E m \in RetryArgs : Invoke(MaskCaller, m)
    \/ \E v \in Values : Succeed(MaskCaller, v)
    \/ \E e \in ClassifiedErrors : Fail(MaskCaller, e)
    \/ Retry(MaskCaller)
    \/ GetStatus
    \/ ResetAllKeys
    \/ \E step \in TickSteps : Tick(step)

ClassifySpec == ClassifyInit /\ [][ClassifyNext]_vars

\* the runs that never end: the clock is read only in `blacklistedUntil <=
\* now` and in `Date.now() + blacklistDuration`, so the passing of time is
\* kept as the timestamps receding from a fixed now; ages of more than one
\* blacklistDuration are not told apart
LiveEpoch == 2 * blacklistDuration

Recede(x, step) ==
    IF x = Undefined
    THEN Undefined
    ELSE IF x - step < LiveEpoch - blacklistDuration
         THEN LiveEpoch - blacklistDuration
         ELSE x - step

Finished(c) == pc[c] \in {"returned", "thrown"}

LiveInit ==
    /\ numKeys \in MaskPools
    /\ ConstructedAt([k \in Keys |-> DefaultKey(k)], LiveEpoch)

\* the clock advances by step; the callers whose invocation is over are
\* ready to invoke again, and the usage statistics (requestCount, lastUsed
\* ages), which no decision of the rotator reads, start afresh
LiveTick(step) ==
    /\ keyStatuses' =
          [k \in Keys |->
             [keyStatuses[k] EXCEPT !.blacklistedUntil = Recede(@, step),
                                    !.lastUsed = Recede(@, step),
                                    !.requestCount = 0]]
    /\ pc' = [c \in Callers |-> IF Finished(c) THEN "idle" ELSE pc[c]]
    /\ outcome' = [c \in Callers |-> IF Finished(c) THEN NoOutcome ELSE outcome[c]]
    /\ calls' = [c \in Callers |-> IF Finished(c) THEN 0 ELSE calls[c]]
    /\ okValues' = [c \in Callers |-> IF Finished(c) THEN << >> ELSE okValues[c]]
    /\ alone' = [c \in Callers |-> ~Finished(c) /\ alone[c]]
    /\ quiet' = [c \in Callers |-> ~Finished(c) /\ quiet[c]]
    /\ solo' = [c \in Callers |-> ~Finished(c) /\ solo[c]]
    /\ degraded' = [c \in Callers |-> ~Finished(c) /\ degraded[c]]
    /\ quotaFailed' = {}
    /\ UNCHANGED << numKeys, now, currentKeyIndex, attempt, maxRetries,
                    usedKey, lastError, handed, ticks >>

\* one caller invokes makeGeminiRequest again and again
LiveNext ==
    \/ \E m \in RetryArgs : Invoke(MaskCaller, m)
    \/ \E v \in Values : Succeed(MaskCaller, v)
    \/ \E e \in Errors : Fail(MaskCaller, e)
    \/ Retry(MaskCaller)
    \/ GetStatus
    \/ ResetAllKeys
    \/ \E step \in TickSteps : LiveTick(step)

\* the clock keeps advancing and the pool keeps being accessed: a status
\* request that has a blacklist to lift is eventually served
LiveSpec ==
    /\ LiveInit
    /\ [][LiveNext]_vars
    /\ WF_vars(\E step \in TickSteps : LiveTick(step))
    /\ WF_vars(GetStatus)

---------------------------------------------------------------------------
(* Vocabulary of the properties *)

Min(a, b) == IF a < b THEN a ELSE b

Blacklisting(error) == isQuotaLimitError(error) \/ isRateLimitError(error)

IsBlacklisted(k) == keyStatuses[k].isBlacklisted

\* the step is caller c's failure handling (the catch block of
\* makeGeminiRequest); FailedWith(c) is the error requestFn rejected with
FailStep(c) == pc[c] = "calling" /\ pc'[c] \in {"handled", "thrown"}

FailedWith(c) == IF pc'[c] = "handled" THEN lastError'[c] ELSE outcome'[c].error

\* the step hands a client to caller c's requestFn (getCurrentClient)
SelectStep(c) == pc[c] # "calling" /\ pc'[c] = "calling"

\* the step ends caller c's invocation with a throw
GiveUpStep(c) == pc[c] # "thrown" /\ pc'[c] = "thrown"

AllBlacklisted == \A k \in Keys : IsBlacklisted(k)

\* caller c's invocation has run undisturbed: alone, with no reset or expiry
Isolated(c) == alone[c] /\ quiet[c]

---------------------------------------------------------------------------
(* C1: a single invocation of makeGeminiRequest(requestFn, maxRetries) on  *)
(* a pool of N keys invokes requestFn at most min(maxRetries, N) times,    *)
(* under every interleaving with other invocations, clock advances and     *)
(* resets: the count of requestFn invocations changes only in a step that  *)
(* calls requestFn, and never exceeds min(maxRetries, N).                  *)
C1_CallsBounded ==
    [][\A c \in Callers :
          calls'[c] # calls[c] =>
             /\ pc'[c] = "calling"
             /\ calls'[c] <= Min(maxRetries'[c], numKeys)]_vars

\* the bound is met with a limit above the pool size
C1_Witness ==
    \E c \in Callers :
       /\ pc[c] = "calling"
       /\ numKeys >= 2
       /\ maxRetries[c] > numKeys
       /\ calls[c] = numKeys

---------------------------------------------------------------------------
(* C2: a key none of whose own calls failed with a quota/rate-limit error  *)
(* is never Blacklisted (the key that failure handling blacklists is the   *)
(* key whose client was handed to the failing requestFn invocation).       *)
(* handleApiError blacklists apiKeys[currentKeyIndex] instead, which a     *)
(* concurrent caller may have moved.                                       *)
C2_OnlyFailedKeysBlacklisted ==
    \A k \in Keys : IsBlacklisted(k) => k \in quotaFailed

---------------------------------------------------------------------------
(* C3: no blacklist transition is lost: immediately after the failure      *)
(* handling of a quota/rate-limit error returned by a call made with key   *)
(* k, key k is Blacklisted.                                                *)
C3_FailedKeyBlacklisted ==
    [][\A c \in Callers :
          FailStep(c) /\ Blacklisting(FailedWith(c)) =>
             keyStatuses'[usedKey[c]].isBlacklisted]_vars

---------------------------------------------------------------------------
(* C4: an invocation with default arguments whose requestFn failures are   *)
(* all quota/rate-limit errors surfaces a failure only when, at the moment *)
(* it gives up, no key of the pool is non-blacklisted.  Stated for the     *)
(* case most favourable to the claim: an invocation that starts with all   *)
(* keys Active and runs with no concurrent caller, reset or expiry.        *)
C4_GivesUpOnlyWhenExhausted ==
    [][\A c \in Callers :
          /\ GiveUpStep(c)
          /\ maxRetries[c] = DefaultMaxRetries
          /\ Blacklisting(outcome'[c].error)
          /\ alone'[c] /\ quiet'[c]
          => \A k \in Keys : keyStatuses'[k].isBlacklisted]_vars

---------------------------------------------------------------------------
(* C5: when requestFn fails with an error that is neither quota nor        *)
(* rate-limit, makeGeminiRequest throws that error to the caller after     *)
(* that attempt without calling requestFn again, and the failure handling  *)
(* changes no key status and does not move currentKeyIndex.                *)
C5_FatalPropagates ==
    [][\A c \in Callers :
          FailStep(c) /\ ~Blacklisting(FailedWith(c)) =>
             /\ pc'[c] = "thrown"
             /\ outcome'[c].kind = "thrown"
             /\ outcome'[c].error \in Errors
             /\ calls'[c] = calls[c]
             /\ currentKeyIndex' = currentKeyIndex
             /\ keyStatuses' = keyStatuses]_vars

\* a fatal error on the first attempt: one call made, the key still Active
C5_Witness ==
    \E c \in Callers :
       /\ pc[c] = "thrown"
       /\ outcome[c].error.defined
       /\ ~Blacklisting(outcome[c].error)
       /\ calls[c] = 1
       /\ \A k \in Keys : ~IsBlacklisted(k)
       /\ \E k \in Keys : keyStatuses[k].requestCount = 1

---------------------------------------------------------------------------
(* C6: makeGeminiRequest returns a value only if a requestFn invocation    *)
(* succeeded; the value is the result of the first (and only) successful   *)
(* invocation, after which requestFn is not invoked again; in every other  *)
(* case, maxRetries <= 0 included, it throws and returns no value.         *)
C6_ReturnsOnlyRealResult ==
    \A c \in Callers :
       /\ outcome[c].kind = "returned" =>
             /\ pc[c] = "returned"
             /\ Len(okValues[c]) = 1
             /\ outcome[c].value = okValues[c][1]
       /\ okValues[c] # << >> => pc[c] = "returned"
       /\ pc[c] \in {"returned", "thrown"} /\ okValues[c] = << >> =>
             /\ pc[c] = "thrown"
             /\ outcome[c].kind = "thrown"
             /\ outcome[c].value = NoValue

\* a success on a retry, after an earlier key failed
C6_Witness ==
    \E c \in Callers :
       /\ pc[c] = "returned"
       /\ calls[c] >= 2
       /\ outcome[c].value \in Values

---------------------------------------------------------------------------
(* C7: Scenario A generalised: on a pool of N keys, all Active, with an    *)
(* attempt limit of N, no concurrent caller and a requestFn that always    *)
(* fails with a quota error, makeGeminiRequest throws after exactly N      *)
(* requestFn invocations and all N keys are Blacklisted when it does.      *)
(* As stated, the claim fails when resetAllKeys runs, or a blacklist       *)
(* expires, while the invocation is in progress.                           *)
C7_ScenarioA_AsStated ==
    [][\A c \in Callers :
          /\ Running(c)
          /\ GiveUpStep(c)
          /\ Blacklisting(outcome'[c].error)
          /\ maxRetries[c] = numKeys
          /\ alone'[c]
          => /\ calls'[c] = numKeys
             /\ \A k \in Keys : keyStatuses'[k].isBlacklisted]_vars

(* C7, amended: the same, for an invocation during which moreover no       *)
(* resetAllKeys runs and no blacklist expires.                             *)
C7_ScenarioA ==
    [][\A c \in Callers :
          /\ Running(c)
          /\ GiveUpStep(c)
          /\ Blacklisting(outcome'[c].error)
          /\ maxRetries[c] = numKeys
          /\ alone'[c] /\ quiet'[c]
          => /\ calls'[c] = numKeys
             /\ \A k \in Keys : keyStatuses'[k].isBlacklisted]_vars

\* the largest pool exhausted by one undisturbed invocation
C7_Witness ==
    \E c \in Callers :
       /\ pc[c] = "thrown"
       /\ Isolated(c)
       /\ numKeys = MaxKeys
       /\ calls[c] = MaxKeys
       /\ Blacklisting(outcome[c].error)
       /\ AllBlacklisted

---------------------------------------------------------------------------
(* C8: per-key state machine.  In every step a key goes from Active to     *)
(* Blacklisted only inside the handling of a quota/rate-limit failure, and *)
(* from Blacklisted to Active only by lazy expiry (a pool access at a time *)
(* >= its blacklistedUntil) or by resetAllKeys; handing out a client, a    *)
(* successful call and the handling of another error blacklist no key, and *)
(* a successful call or another error changes no key's blacklist state.    *)
ResetStep == keyStatuses' = resetAllKeys(Pool).keyStatuses /\ pc' = pc /\ now' = now

C8_KeyStateMachine ==
    [][\A k \in Keys :
          /\ ~IsBlacklisted(k) /\ keyStatuses'[k].isBlacklisted =>
                \E c \in Callers : FailStep(c) /\ Blacklisting(FailedWith(c))
          /\ IsBlacklisted(k) /\ ~keyStatuses'[k].isBlacklisted =>
                \/ ExpiredAt(keyStatuses[k], now) /\ now' = now
                \/ ResetStep
          /\ (\E c \in Callers :
                 \/ pc[c] = "calling" /\ pc'[c] = "returned"
                 \/ FailStep(c) /\ ~Blacklisting(FailedWith(c))) =>
                keyStatuses'[k].isBlacklisted = IsBlacklisted(k)]_vars

\* on a pool with a single caller, a key that was used, failed and was
\* blacklisted is Active again with its request count intact: it expired
C8_Witness ==
    /\ ~Overlap
    /\ \E k \in quotaFailed :
          /\ ~IsBlacklisted(k)
          /\ keyStatuses[k].requestCount = 1
    /\ \E j \in Keys : IsBlacklisted(j)

---------------------------------------------------------------------------
(* C9: boundary-inclusive recovery.  A key blacklisted at time T gets      *)
(* blacklistedUntil = T + blacklistDuration.  While it is blacklisted and  *)
(* has not been reset or blacklisted again, every pool access (a key       *)
(* selection or getStatus) at a time before blacklistedUntil leaves it     *)
(* Blacklisted with the same blacklistedUntil, and a selection hands it    *)
(* out only when no key is Active; every pool access at a time at or after *)
(* blacklistedUntil, equality included, clears isBlacklisted and           *)
(* blacklistedUntil.                                                       *)
\* a step of the status route: getStatus or resetAllKeys
RouteStep == pc' = pc /\ now' = now

C9_BoundaryInclusiveRecovery ==
    [][/\ \A c \in Callers :
             FailStep(c) /\ Blacklisting(FailedWith(c)) =>
                \E k \in Keys :
                   /\ keyStatuses'[k].isBlacklisted
                   /\ keyStatuses'[k].blacklistedUntil = now + blacklistDuration
       /\ \A k \in Keys :
             IsBlacklisted(k) =>
                LET until == keyStatuses[k].blacklistedUntil
                IN  /\ (/\ now < until
                        /\ \/ RouteStep /\ ~ResetStep
                           \/ \E c \in Callers : SelectStep(c)) =>
                          /\ keyStatuses'[k].isBlacklisted
                          /\ keyStatuses'[k].blacklistedUntil = until
                    /\ \A c \in Callers :
                          (now < until /\ SelectStep(c) /\ usedKey'[c] = k) =>
                             \A j \in Keys : keyStatuses'[j].isBlacklisted
                    /\ (/\ now >= until
                        /\ \/ RouteStep
                           \/ \E c \in Callers : SelectStep(c)) =>
                          /\ ~keyStatuses'[k].isBlacklisted
                          /\ keyStatuses'[k].blacklistedUntil = Undefined]_vars

\* a key blacklisted at time 0 is handed out as an active key at exactly
\* time blacklistDuration
C9_Witness ==
    /\ now = blacklistDuration
    /\ \E c \in Callers :
          /\ pc[c] = "calling"
          /\ usedKey[c] \in quotaFailed
          /\ ~IsBlacklisted(usedKey[c])
          /\ keyStatuses[usedKey[c]].requestCount = 2
          /\ keyStatuses[usedKey[c]].lastUsed = now

---------------------------------------------------------------------------
(* C10: whenever every key of the pool is Blacklisted and none has reached *)
(* its blacklistedUntil (as after N quota failures on the N distinct keys  *)
(* with no expiry and no reset), getStatus reports activeKeys = 0 and key  *)
(* selection returns the key with the minimum blacklistedUntil, the lowest *)
(* index among equals, with currentKeyIndex set to that key.               *)
Exhausted == AllBlacklisted /\ ~SomeExpiry(Pool, now)

SoonestKey ==
    CHOOSE k \in Keys :
       \A j \in Keys :
          \/ keyStatuses[k].blacklistedUntil < keyStatuses[j].blacklistedUntil
          \/ /\ keyStatuses[k].blacklistedUntil = keyStatuses[j].blacklistedUntil
             /\ k <= j

C10_ExhaustedSelection ==
    Exhausted =>
       /\ getStatus(Pool, now).status.activeKeys = 0
       /\ getActiveKey(Pool, now).key = SoonestKey
       /\ getActiveKey(Pool, now).pool.currentKeyIndex = SoonestKey

\* every key was blacklisted by a quota failure of its own call, a later
\* degraded selection handed out key 0 on a tie, and the key that now
\* recovers soonest is not the first one
C10_Witness ==
    /\ Exhausted
    /\ numKeys >= 2
    /\ Keys \subseteq quotaFailed
    /\ SoonestKey # 0
    /\ keyStatuses[0].requestCount = 2

---------------------------------------------------------------------------
(* C11: in every reachable state, under any interleaving of client         *)
(* hand-outs, failure handling, getStatus, resetAllKeys and clock          *)
(* advances, 0 <= currentKeyIndex < number of configured keys.             *)
C11_IndexInRange == 0 <= currentKeyIndex /\ currentKeyIndex < numKeys

\* moveToNextKey wrapped around from the last key, just blacklisted, to
\* the first key, which had recovered
C11_Witness ==
    /\ numKeys >= 2
    /\ currentKeyIndex = 0
    /\ numKeys - 1 \in quotaFailed
    /\ IsBlacklisted(numKeys - 1)
    /\ keyStatuses[numKeys - 1].blacklistedUntil = now + blacklistDuration
    /\ 0 \in quotaFailed
    /\ ~IsBlacklisted(0)

---------------------------------------------------------------------------
(* C12: in every reachable state and for every key, blacklistedUntil is    *)
(* set if and only if isBlacklisted is true, whatever the order of         *)
(* blacklisting, expiry cleanup and resetAllKeys.                          *)
C12_ExpiryIffBlacklisted ==
    \A k \in Keys :
       (keyStatuses[k].blacklistedUntil # Undefined) <=> keyStatuses[k].isBlacklisted

\* one key was blacklisted and reset, another is blacklisted after a clock
\* advance
C12_Witness ==
    /\ now > 0
    /\ \E k \in quotaFailed :
          /\ ~IsBlacklisted(k)
          /\ keyStatuses[k].requestCount = 0
          /\ keyStatuses[k].blacklistedUntil = Undefined
    /\ \E j \in Keys :
          /\ IsBlacklisted(j)
          /\ keyStatuses[j].blacklistedUntil = now + blacklistDuration

---------------------------------------------------------------------------
(* C13: whenever getStatus is called at a time >= a key's blacklistedUntil *)
(* the snapshot reports that key as not blacklisted, with no expiry field, *)
(* and counts it in activeKeys; so the snapshot never reports zero active  *)
(* keys once some key's blacklist has elapsed.                             *)
Elapsed(k) ==
    /\ IsBlacklisted(k)
    /\ keyStatuses[k].blacklistedUntil # Undefined
    /\ now >= keyStatuses[k].blacklistedUntil

C13_StatusSeesElapsedKeys ==
    LET status == getStatus(Pool, now).status
    IN  /\ \A k \in Keys :
              Elapsed(k) =>
                 /\ ~status.keyStatuses[k].isBlacklisted
                 /\ status.keyStatuses[k].blacklistedUntil = Undefined
        /\ status.activeKeys =
              Cardinality({k \in Keys : ~IsBlacklisted(k) \/ Elapsed(k)})
        /\ (\E k \in Keys : Elapsed(k)) => status.activeKeys >= 1

\* every key is still marked blacklisted, and the blacklist of some of
\* them has elapsed exactly now: no access has cleaned up yet
C13_Witness ==
    /\ numKeys >= 2
    /\ AllBlacklisted
    /\ now = blacklistDuration
    /\ \E k \in Keys : Elapsed(k)

---------------------------------------------------------------------------
(* C14: a key's requestCount is incremented, and its lastUsed set, only    *)
(* when an upstream call made with that key succeeds: in every step, a     *)
(* key's requestCount grows only if the step is the successful return of a *)
(* call made with that key.  getCurrentClient counts the hand-out instead, *)
(* before requestFn is called.                                             *)
C14_CountsOnlySuccesses ==
    [][\A k \in Keys :
          keyStatuses'[k].requestCount > keyStatuses[k].requestCount =>
             \E c \in Callers :
                /\ pc[c] = "calling"
                /\ pc'[c] = "returned"
                /\ usedKey[c] = k]_vars

---------------------------------------------------------------------------
(* C15: resetAllKeys, applied to any reachable pool state, leaves every    *)
(* key with isBlacklisted = false, blacklistedUntil unset and              *)
(* requestCount = 0.                                                       *)
C15_ResetClearsEveryKey ==
    \A k \in Keys :
       /\ resetAllKeys(Pool).keyStatuses[k].isBlacklisted = FALSE
       /\ resetAllKeys(Pool).keyStatuses[k].blacklistedUntil = Undefined
       /\ resetAllKeys(Pool).keyStatuses[k].requestCount = 0

\* a reset has run after calls were made and every key had been blacklisted
C15_Witness ==
    /\ numKeys >= 2
    /\ Keys \subseteq quotaFailed
    /\ \E c \in Callers : calls[c] = numKeys
    /\ \A k \in Keys :
          /\ ~IsBlacklisted(k)
          /\ keyStatuses[k].requestCount = 0

---------------------------------------------------------------------------
(* C16: resetAllKeys is idempotent: from any reachable pool state, two     *)
(* resets in a row give the same currentKeyIndex and the same              *)
(* isBlacklisted, blacklistedUntil, requestCount and lastUsed of every key *)
(* as one reset.                                                           *)
C16_ResetIdempotent ==
    resetAllKeys(resetAllKeys(Pool)) = resetAllKeys(Pool)

\* a pool that a reset changes: a blacklisted key, a counted request, a
\* rotation index off the first key
C16_Witness ==
    /\ currentKeyIndex # 0
    /\ \E k \in Keys : IsBlacklisted(k) /\ keyStatuses[k].requestCount >= 1
    /\ resetAllKeys(Pool) # Pool
    /\ resetAllKeys(Pool).currentKeyIndex = currentKeyIndex

---------------------------------------------------------------------------
(* C18: getStatus is a read-only snapshot: called in any reachable state   *)
(* and at any clock value it leaves currentKeyIndex and every key's        *)
(* isBlacklisted, blacklistedUntil, requestCount and lastUsed unchanged.   *)
(* getStatus runs cleanupExpiredBlacklists, which clears elapsed           *)
(* blacklists.                                                             *)
C18_GetStatusReadOnly == getStatus(Pool, now).pool = Pool

---------------------------------------------------------------------------
(* C19: with no attempt limit supplied, a single undisturbed invocation on *)
(* a pool of N keys whose requestFn always fails with quota errors makes   *)
(* exactly N upstream calls before failing.  The default limit is 3,       *)
(* whatever the number of keys.                                            *)
C19_DefaultLimitIsKeyCount ==
    [][\A c \in Callers :
          (/\ GiveUpStep(c)
           /\ Blacklisting(outcome'[c].error)
           /\ maxRetries[c] = DefaultMaxRetries
           /\ alone'[c] /\ quiet'[c]) =>
             calls'[c] = numKeys]_vars

---------------------------------------------------------------------------
(* C20: provider fall-through: when every key of the pool has failed with  *)
(* quota errors the request proceeds to a next provider instead of         *)
(* failing, so no invocation ends by throwing a quota error with every key *)
(* of the pool Blacklisted.  There is one provider only: makeGeminiRequest *)
(* throws the last quota error.                                            *)
C20_FallsThroughOnExhaustion ==
    \A c \in Callers :
       ~(/\ pc[c] = "thrown"
         /\ Blacklisting(outcome[c].error)
         /\ calls[c] = numKeys
         /\ AllBlacklisted)

---------------------------------------------------------------------------
(* C17: every key identifier of a getStatus result (currentKey and the key *)
(* of each keyStatuses entry) shows only a fixed-length prefix of the      *)
(* credential and never contains the whole credential, whatever its        *)
(* length.  substring(0, 8) returns the whole credential when it has 8     *)
(* characters or fewer.                                                    *)
Exposes(masked, credential) ==
    \/ Len(masked) # MaskLength + 3
    \/ Contains(masked, credential)

C17_MaskHidesCredential ==
    LET status == getStatus(Pool, now).status
    IN  /\ ~Exposes(status.currentKey, keyStatuses[currentKeyIndex].key)
        /\ \A k \in Keys : ~Exposes(status.keyStatuses[k].key, keyStatuses[k].key)

---------------------------------------------------------------------------
(* C21: failure outcomes are typed and distinct: the failure an invocation *)
(* surfaces when quota/rate-limit errors exhausted the keys is of another  *)
(* outcome kind than the failure it surfaces for a fatal upstream error.   *)
(* makeGeminiRequest rethrows the upstream error itself in both cases.     *)
Failed(c) == pc[c] = "thrown" /\ outcome[c].error.defined

C21_FailuresTyped ==
    \A c, d \in Callers :
       (/\ Failed(c) /\ Blacklisting(outcome[c].error)
        /\ Failed(d) /\ ~Blacklisting(outcome[d].error)) =>
          outcome[c].kind # outcome[d].kind

---------------------------------------------------------------------------
(* C22: key selection first clears the expired blacklists, then returns    *)
(* the first non-blacklisted key at or after currentKeyIndex in cyclic     *)
(* index order and sets currentKeyIndex to it; so while the key at         *)
(* currentKeyIndex is not blacklisted every selection returns that key,    *)
(* and the selected key is a function of the pool state and the clock.     *)
Usable(k) == ~IsBlacklisted(k) \/ Elapsed(k)

Offset(k) == (k - currentKeyIndex + numKeys) % numKeys

FirstUsable ==
    CHOOSE k \in Keys :
       Usable(k) /\ \A j \in Keys : Usable(j) => Offset(k) <= Offset(j)

C22_SelectionOrder ==
    [][\A c \in Callers :
          (SelectStep(c) /\ \E k \in Keys : Usable(k)) =>
             /\ usedKey'[c] = FirstUsable
             /\ currentKeyIndex' = FirstUsable
             /\ \A k \in Keys : keyStatuses'[k].isBlacklisted = ~Usable(k)
             /\ (Usable(currentKeyIndex) => usedKey'[c] = currentKeyIndex)]_vars

\* a selection that found the key at currentKeyIndex blacklisted, wrapped
\* around and handed out the first key, whose blacklist had just elapsed
C22_Witness ==
    /\ numKeys = 2
    /\ now = blacklistDuration
    /\ IsBlacklisted(1)
    /\ keyStatuses[1].blacklistedUntil = now + (blacklistDuration \div 2)
    /\ \E c \in Callers :
          /\ pc[c] = "calling"
          /\ usedKey[c] = 0
          /\ currentKeyIndex = 0
          /\ keyStatuses[0].requestCount = 2
          /\ keyStatuses[0].lastUsed = now

---------------------------------------------------------------------------
(* C23: handling a quota/rate-limit failure sets the blacklistedUntil of   *)
(* the key it blacklists (the key at currentKeyIndex) to now + TTL and     *)
(* leaves currentKeyIndex on the first non-blacklisted key that follows    *)
(* that key in cyclic index order when there is one; when there is none,   *)
(* currentKeyIndex is back on the key just blacklisted.                    *)
Following(b) == {k \in Keys \ {b} : Usable(k)}

C23_AdvanceAfterBlacklisting ==
    [][\A c \in Callers :
          (FailStep(c) /\ Blacklisting(FailedWith(c))) =>
             /\ keyStatuses'[currentKeyIndex].isBlacklisted
             /\ keyStatuses'[currentKeyIndex].blacklistedUntil = now + blacklistDuration
             /\ \A k \in Keys : ~keyStatuses'[k].isBlacklisted <=> k \in Following(currentKeyIndex)
             /\ IF Following(currentKeyIndex) = {}
                THEN currentKeyIndex' = currentKeyIndex
                ELSE /\ currentKeyIndex' \in Following(currentKeyIndex)
                     /\ \A j \in Following(currentKeyIndex) :
                           Offset(currentKeyIndex') <= Offset(j)]_vars

\* on a pool of three keys with one caller, the last key was blacklisted
\* and the advance wrapped around to the first key, recovered in between
C23_Witness ==
    /\ numKeys = 3
    /\ pc[1] = "thrown"
    /\ calls[1] = 3
    /\ currentKeyIndex = 0
    /\ ~IsBlacklisted(0)
    /\ IsBlacklisted(1)
    /\ IsBlacklisted(2)
    /\ keyStatuses[2].blacklistedUntil = now + blacklistDuration

---------------------------------------------------------------------------
(* C24: error classification.  As stated: an error blacklists exactly when *)
(* its status is 429 or 503 or its message contains one of "quota",        *)
(* "resource exhausted", "rate limit", "too many requests", "overloaded";  *)
(* status 429 is classified quota, status 503 rate-limit, and an error     *)
(* with none of these signals is classified other and changes no key.      *)
(* The code's phrases are 'quota', 'RESOURCE_EXHAUSTED', 'rate limit',     *)
(* 'Too Many Requests' and 'overloaded', matched case-sensitively.         *)
StatedQuotaPhrases == {PhraseQuota, MessageLowerResourceExhausted}

StatedPhrases ==
    StatedQuotaPhrases
       \cup {PhraseRateLimit, MessageLowerTooManyRequests, PhraseOverloaded}

ExactQuotaPhrases == {PhraseQuota, PhraseResourceExhausted}

ExactPhrases ==
    ExactQuotaPhrases
       \cup {PhraseRateLimit, PhraseTooManyRequests, PhraseOverloaded}

Signals(error, phrases) ==
    \/ error.status \in {429, 503}
    \/ \E phrase \in phrases : Contains(error.message, phrase)

\* the classification of the error of every failure handling, for the
\* given phrases
ClassifiedBy(phrases, quotaPhrases) ==
    \A c \in Callers :
       FailStep(c) =>
          /\ ~IsBlacklisted(currentKeyIndex) =>
                (keyStatuses'[currentKeyIndex].isBlacklisted
                    <=> Signals(FailedWith(c), phrases))
          /\ ~Signals(FailedWith(c), phrases) =>
                /\ poolVars' = poolVars
                /\ Classify(FailedWith(c)) = "other"
          /\ FailedWith(c).status = 429 => Classify(FailedWith(c)) = "quota"
          /\ (/\ FailedWith(c).status = 503
              /\ \A phrase \in quotaPhrases :
                    ~Contains(FailedWith(c).message, phrase)) =>
                Classify(FailedWith(c)) = "rate_limit"

C24_Classification_AsStated ==
    [][ClassifiedBy(StatedPhrases, StatedQuotaPhrases)]_vars

\* C24 amended: the same with the phrases 'quota', 'RESOURCE_EXHAUSTED',
\* 'rate limit', 'Too Many Requests', 'overloaded', matched case-sensitively
C24_Classification ==
    [][ClassifiedBy(ExactPhrases, ExactQuotaPhrases)]_vars

\* an error without status whose message says the model is overloaded
\* blacklisted the key of the call and the caller goes on to retry
C24_Witness ==
    /\ pc[MaskCaller] = "handled"
    /\ lastError[MaskCaller].status = 0
    /\ lastError[MaskCaller].message = MessageOverloaded
    /\ IsBlacklisted(usedKey[MaskCaller])

---------------------------------------------------------------------------
(* C26: a blacklisted credential is excluded from selection for its TTL.   *)
(* As stated: under any interleaving of callers, getCurrentClient never    *)
(* hands out the client of a key that is blacklisted with                  *)
(* blacklistedUntil > now.  When every key is blacklisted the fallback of  *)
(* getActiveKey hands out the key that expires soonest.                    *)
HandedBlacklisted(c) ==
    /\ keyStatuses'[usedKey'[c]].isBlacklisted
    /\ keyStatuses'[usedKey'[c]].blacklistedUntil > now

C26_NeverHandsOutBlacklisted ==
    [][\A c \in Callers : SelectStep(c) => ~HandedBlacklisted(c)]_vars

\* C26 amended: ... while at least one key is non-blacklisted or has
\* reached its blacklistedUntil
C26_HandsOutBlacklistedOnlyWhenExhausted ==
    [][\A c \in Callers :
          (SelectStep(c) /\ ~Exhausted) => ~HandedBlacklisted(c)]_vars

\* two overlapping callers were both handed the second key while the first
\* one is blacklisted and unexpired
C26_Witness ==
    /\ numKeys = 2
    /\ IsBlacklisted(0)
    /\ keyStatuses[0].blacklistedUntil > now
    /\ ~IsBlacklisted(1)
    /\ \A c \in Callers : pc[c] = "calling" /\ usedKey[c] = 1

---------------------------------------------------------------------------
(* C27: within one invocation of makeGeminiRequest that runs with no       *)
(* concurrent caller, no resetAllKeys and no blacklist expiry, no key is   *)
(* handed to requestFn more than once: every retry uses a key different    *)
(* from all keys already tried in the invocation.                          *)
C27_NoKeyTriedTwice ==
    \A c \in Callers :
       (Running(c) /\ solo[c] /\ quiet[c]) =>
          \A i, j \in 1 .. Len(handed[c]) :
             handed[c][i] = handed[c][j] => i = j

\* an invocation running alone is on its third key
C27_Witness ==
    \E c \in Callers :
       /\ pc[c] = "calling"
       /\ solo[c] /\ quiet[c]
       /\ Len(handed[c]) = 3

---------------------------------------------------------------------------
(* C28: degraded mode still calls upstream.  An invocation made while      *)
(* every key is blacklisted and unexpired hands the earliest-expiring key  *)
(* to requestFn and counts the request on it; when that call fails with a  *)
(* quota or rate-limit error, the key's blacklistedUntil is rewritten to   *)
(* now + blacklistDuration, never earlier than before, and the invocation  *)
(* throws after that single upstream call.                                 *)
DegradedSelectStep(c) ==
    pc[c] \in {"idle", "returned", "thrown"} /\ SelectStep(c) /\ Exhausted

DegradedFailStep(c) ==
    /\ degraded[c]
    /\ FailStep(c)
    /\ Blacklisting(FailedWith(c))

C28_DegradedHandsOut ==
    \A c \in Callers :
       DegradedSelectStep(c) =>
          /\ usedKey'[c] = SoonestKey
          /\ calls'[c] = 1
          /\ keyStatuses'[SoonestKey].requestCount =
                keyStatuses[SoonestKey].requestCount + 1
          /\ keyStatuses'[SoonestKey].isBlacklisted

C28_DegradedFailure ==
    \A c \in Callers :
       DegradedFailStep(c) =>
          /\ keyStatuses'[usedKey[c]].isBlacklisted
          /\ keyStatuses'[usedKey[c]].blacklistedUntil = now + blacklistDuration
          /\ keyStatuses'[usedKey[c]].blacklistedUntil >=
                keyStatuses[usedKey[c]].blacklistedUntil
          /\ pc'[c] = "thrown"
          /\ calls[c] = 1

C28_StillDegradedFailure ==
    \A c \in Callers :
       (DegradedFailStep(c) /\ Exhausted) =>
          /\ keyStatuses'[usedKey[c]].isBlacklisted
          /\ keyStatuses'[usedKey[c]].blacklistedUntil = now + blacklistDuration
          /\ keyStatuses'[usedKey[c]].blacklistedUntil >=
                keyStatuses[usedKey[c]].blacklistedUntil
          /\ pc'[c] = "thrown"
          /\ calls[c] = 1

---------------------------------------------------------------------------
(* C29: whenever getStatus reports activeKeys > 0, the currentKey it       *)
(* reports (the key at currentKeyIndex, the dashboard's "Current Active    *)
(* Key") is a non-blacklisted key, after any sequence of calls, failures,  *)
(* expiries and resets.                                                    *)
C29_ReportedCurrentKeyIsActive ==
    LET g == getStatus(Pool, now)
        reported == g.pool.currentKeyIndex
    IN  g.status.activeKeys > 0 =>
           /\ g.status.currentKey = Mask(g.pool.keyStatuses[reported].key)
           /\ ~g.pool.keyStatuses[reported].isBlacklisted

---------------------------------------------------------------------------
(* C30: in every reachable state every blacklisted key has                 *)
(* blacklistedUntil <= now + blacklistDuration: no key is scheduled to     *)
(* stay excluded for longer than one TTL from the current time, however    *)
(* many times it has been blacklisted again.                               *)
C30_ExpiryWithinOneTTL ==
    \A k \in Keys :
       IsBlacklisted(k) =>
          keyStatuses[k].blacklistedUntil <= now + blacklistDuration

\* on a pool of two, a key that failed before was handed out again while
\* still blacklisted, failed again, and expires exactly one TTL from now
C30_Witness ==
    /\ numKeys = 2
    /\ now > 0
    /\ \E k \in Keys :
          /\ IsBlacklisted(k)
          /\ k \in quotaFailed
          /\ keyStatuses[k].requestCount >= 2
          /\ keyStatuses[k].blacklistedUntil = now + blacklistDuration
          /\ \E c \in Callers : degraded[c] /\ pc[c] = "thrown" /\ calls[c] = 1

---------------------------------------------------------------------------
(* C25: no key stays unusable forever.  With the clock advancing and the   *)
(* pool being accessed again and again, every key that becomes             *)
(* blacklisted is eventually active again, also while callers keep         *)
(* invoking makeGeminiRequest against a fully blacklisted pool and those   *)
(* calls keep failing with quota errors.                                   *)
C25_BlacklistedEventuallyActive ==
    \A n \in MaskPools :
       (n <= numKeys /\ IsBlacklisted(n - 1)) ~>
          (n <= numKeys /\ ~IsBlacklisted(n - 1))

====
